---- MODULE Spec2Model ----
(***************************************************************************)
(* Model of the training loop of train.py (ViT fine-tuning): resume from   *)
(* a checkpoint, the initial mAp pass, the epoch / micro-batch loop with   *)
(* gradient accumulation, the periodic evaluation with best-checkpoint     *)
(* saving, and the loop exit test.                                         *)
(*                                                                         *)
(* Abstractions.  Model weights are an identifier of where they were       *)
(* loaded from plus the number of optimizer updates applied since.         *)
(* Gradients are the number of micro-batch gradients accumulated since     *)
(* the last zero_grad().  A validation accuracy a stands for a / MaxAcc.   *)
(* Python 3 semantics are modelled (None < float raises TypeError).        *)
(***************************************************************************)
EXTENDS Integers, Sequences, FiniteSets

\* ---- bounds of the explored inputs ----
MaxK == 3          \* gradient_accumulation_steps in 1..MaxK
MaxL == 5          \* len(train_loader) in 1..MaxL
MaxT == 3          \* num_steps in 1..MaxT
MaxE == 2          \* eval_every in 1..MaxE
MaxAcc == 2        \* accuracies are 0/MaxAcc .. MaxAcc/MaxAcc
MaxWeights == 2    \* distinct weight files 1..MaxWeights
MaxCkptStep == 1   \* the 'step' stored in a supplied complete-state checkpoint
MaxFiles == 2      \* checkpoint files written by direct calls of save_model_complete

\* ---- encodings ----
None == -1         \* Python None, where a number is expected
NoFile == -1       \* a path at which no file exists
Pretrained == 0    \* weights loaded by setup() from args.pretrained_dir

Accuracies == 0..MaxAcc

ModelState(wid) == [weights |-> wid, updates |-> 0]
FreshOptimizer == [origin |-> "fresh", steps |-> 0]
CkptOptimizer == [origin |-> "checkpoint", steps |-> 0]

\* args.input_dir: nothing, a bare state_dict, or a complete-state record.
\* train() never reads the stored step, so one non-zero value is explored.
NoCheckpoint ==
  [kind |-> "none", step |-> 0, model_state_dict |-> ModelState(Pretrained),
   optimizer_state_dict |-> FreshOptimizer, best_accuracy |-> None]
WeightsOnlyCheckpoints ==
  { [kind |-> "weights", step |-> 0, model_state_dict |-> ModelState(wid),
     optimizer_state_dict |-> FreshOptimizer, best_accuracy |-> None] :
    wid \in 1..MaxWeights }
CompleteCheckpoints ==
  { [kind |-> "complete", step |-> st, model_state_dict |-> ModelState(wid),
     optimizer_state_dict |-> CkptOptimizer, best_accuracy |-> b] :
    st \in {MaxCkptStep}, wid \in 1..MaxWeights, b \in Accuracies \cup {None} }
InputCheckpoints == {NoCheckpoint} \cup WeightsOnlyCheckpoints \cup CompleteCheckpoints

VARIABLES
  args,        \* parsed options: gradient_accumulation_steps, num_steps, eval_every, input_dir
  train_len,   \* len(train_loader)
  hard_file,   \* weights stored at the path hard-coded in mAp(), or NoFile
  ranks,       \* the local_rank of every process of the run: {-1} or {0, 1}
  w,           \* per process: the locals of train() and what it has done so far
  files,       \* checkpoint files written so far
  call,        \* the last direct call of save_model_complete and the files before it
  sched,       \* a learning-rate schedule object (warmup, then decay)
  meter        \* an AverageMeter object and the calls made on it since its last reset

vars == <<args, train_len, hard_file, ranks, w, files, call, sched, meter>>

\* the objects exercised on their own are idle while train() runs
units == <<call, sched, meter>>

NoCall ==
  [made |-> FALSE, accuracy |-> None, step |-> 0,
   model |-> ModelState(Pretrained), optimizer |-> FreshOptimizer, before |-> {}]

NoSchedule ==
  [warmup_steps |-> 0, t_total |-> 1, decay |-> "none", last_epoch |-> 0,
   factor |-> <<0, 1>>]

\* AverageMeter.__init__ calls reset()
NewMeter ==
  [val |-> 0, avg |-> <<0, 1>>, sum |-> 0, count |-> 0, calls |-> <<>>]

\* ---- tests of train() ----

\* the rank test dropped
IsMainProcess_Ungated(local_rank) == TRUE

\* args.local_rank in [-1, 0]
IsMainProcess(local_rank) == local_rank \in {-1, 0}

\* the window test on the 0-based index
WindowComplete_ZeroBased(step, accumulation) == step % accumulation = 0

\* (step + 1) % args.gradient_accumulation_steps == 0
WindowComplete(step, accumulation) == (step + 1) % accumulation = 0

\* global_step += 1
NextGlobalStep(global_step) == global_step + 1

\* the cadence test dropped
EvalDue_EveryStep(global_step, eval_every, local_rank) ==
  local_rank \in {-1, 0}

\* global_step % args.eval_every == 0 and args.local_rank in [-1, 0]
EvalDue(global_step, eval_every, local_rank) ==
  global_step % eval_every = 0 /\ IsMainProcess(local_rank)

\* a tie counted as a new best
IsNewBest_OrEqual(best_acc, accuracy) == best_acc <= accuracy

\* best_acc < accuracy
IsNewBest(best_acc, accuracy) == best_acc < accuracy

\* global_step % t_total == 0
LoopExit(global_step, t_total) == global_step % t_total = 0

\* ---- checkpoint writing ----

\* 'not accuracy' holds for None and for 0.0
CheckpointDir(accuracy) ==
  IF accuracy = None \/ accuracy = 0 THEN "every_checkpoint" ELSE "best_acc"

CheckpointName(accuracy, step) ==
  IF CheckpointDir(accuracy) = "every_checkpoint" THEN <<step>> ELSE <<step, accuracy>>

save_model_complete(fs, model, optimizer, accuracy, step) ==
  LET rec == [dir |-> CheckpointDir(accuracy),
              name |-> CheckpointName(accuracy, step),
              step |-> step,
              model_state_dict |-> model,
              optimizer_state_dict |-> optimizer,
              best_accuracy |-> accuracy]
  IN {f \in fs : ~(f.dir = rec.dir /\ f.name = rec.name)} \cup {rec}

\* ---- the locals of one process ----

InitWorker ==
  [pc |-> "start",            \* start, eval0, loop, epoch_end, done, error
   writer |-> FALSE,          \* the local 'writer' is bound
   step |-> 0,                \* index of the next micro-batch in the epoch
   epoch |-> 0,               \* completed passes over train_loader
   global_step |-> 0,
   best_acc |-> 0,
   model |-> ModelState(Pretrained),
   training |-> TRUE,         \* model.training
   optimizer |-> FreshOptimizer,
   scheduler |-> 0,           \* scheduler.last_epoch
   grads |-> 0,               \* micro-batch gradients accumulated in .grad
   losses_count |-> 0,        \* losses.count
   \* what the process has done so far
   nbatches |-> 0,            \* micro-batches processed (forward + backward)
   fwd_training |-> TRUE,     \* model.training at the last training forward
   updates |-> 0,             \* optimizer.step() calls
   applied |-> 0,             \* micro-batch gradients in .grad at the last optimizer.step()
   lr_epoch |-> 0,            \* scheduler.last_epoch at the last optimizer.step()
   valids |-> 0,              \* valid() calls
   last_valid_step |-> None,  \* global_step of the last valid() call
   maps |-> 0,                \* mAp() calls
   emits |-> 0,               \* writer.add_scalar() calls
   saves |-> 0,               \* save_model_complete() calls
   accs |-> <<>>,             \* accuracies returned by valid(), in order
   save_idx |-> {}]           \* indices into accs at which a checkpoint was saved

\* resume from args.input_dir
LoadCheckpoint(s, checkpoint) ==
  IF checkpoint.kind = "none" THEN s
  ELSE IF checkpoint.kind = "complete"
       THEN [s EXCEPT !.model = checkpoint.model_state_dict,
                      !.best_acc = checkpoint.best_accuracy]
       ELSE [s EXCEPT !.model = checkpoint.model_state_dict]

\* ---- evaluation ----

valid(s, global_step, accuracy) ==
  [s EXCEPT !.training = FALSE,
            !.valids = @ + 1,
            !.last_valid_step = global_step,
            !.accs = Append(@, accuracy),
            !.emits = @ + 2]

mAp(s, global_step, hf) ==
  IF global_step = -1 /\ hf = NoFile
  THEN [s EXCEPT !.pc = "error"]                 \* torch.load raises
  ELSE [s EXCEPT !.model = IF global_step = -1 THEN ModelState(hf) ELSE @,
                 !.training = FALSE,
                 !.maps = @ + 1,
                 !.emits = @ + 1]

\* the body of 'if global_step % eval_every == 0 and local_rank in [-1, 0]'
Evaluation(s, fs, accuracy, hf) ==
  LET s1 == valid(s, s.global_step, accuracy)
      s2 == mAp(s1, s.global_step, hf)
  IN IF s2.best_acc = None
     THEN [s |-> [s2 EXCEPT !.pc = "error"], files |-> fs]   \* None < float raises
     ELSE IF IsNewBest(s2.best_acc, accuracy)
          THEN [s |-> [s2 EXCEPT !.best_acc = accuracy,
                                 !.saves = @ + 1,
                                 !.save_idx = @ \cup {Len(s2.accs)},
                                 !.training = TRUE],
                files |-> save_model_complete(fs, s2.model, s2.optimizer,
                                              accuracy, s2.global_step)]
          ELSE [s |-> [s2 EXCEPT !.training = TRUE], files |-> fs]

\* ---- one iteration of the for loop ----

\* global_step counted per micro-batch
Backward_CountsStep(s) ==
  [s EXCEPT !.grads = @ + 1,
            !.nbatches = @ + 1,
            !.fwd_training = s.training,
            !.global_step = @ + 1]

\* loss = model(x, y); loss.backward()
Backward(s) ==
  [s EXCEPT !.grads = @ + 1,
            !.nbatches = @ + 1,
            !.fwd_training = s.training]

\* losses.update, clip, scheduler.step, optimizer.step, zero_grad,
\* global_step += 1, the two add_scalar calls
OptimizerUpdate(s, local_rank) ==
  [s EXCEPT !.losses_count = @ + 1,
            !.scheduler = @ + 1,
            !.lr_epoch = s.scheduler + 1,
            !.model.updates = @ + 1,
            !.optimizer.steps = @ + 1,
            !.updates = @ + 1,
            !.applied = s.grads,
            !.grads = 0,
            !.global_step = NextGlobalStep(@),
            !.emits = IF IsMainProcess(local_rank) THEN @ + 2 ELSE @]

\* the for loop fetches the next batch, or ends when the loader is exhausted
Advance(s, L) ==
  IF s.step + 1 = L
  THEN [s EXCEPT !.step = L, !.pc = "epoch_end"]
  ELSE [s EXCEPT !.step = @ + 1]

TrainStep(s, fs, accuracy, a, L, local_rank, hf) ==
  LET b == Backward(s)
  IN IF ~WindowComplete(s.step, a.gradient_accumulation_steps)
     THEN [s |-> Advance(b, L), files |-> fs]
     ELSE LET u == OptimizerUpdate(b, local_rank)
              e == IF EvalDue(u.global_step, a.eval_every, local_rank)
                   THEN Evaluation(u, fs, accuracy, hf)
                   ELSE [s |-> u, files |-> fs]
          IN IF e.s.pc = "error" THEN e
             ELSE IF LoopExit(e.s.global_step, a.num_steps)
                  THEN [s |-> [e.s EXCEPT !.pc = "epoch_end"], files |-> e.files]
                  ELSE [s |-> Advance(e.s, L), files |-> e.files]

\* losses.reset(); the exit test after the for loop; model.train() of the next pass
AfterEpoch(s, a) ==
  IF LoopExit(s.global_step, a.num_steps)
  THEN [s EXCEPT !.losses_count = 0, !.pc = "done"]
  ELSE [s EXCEPT !.losses_count = 0, !.pc = "loop", !.step = 0,
                 !.epoch = @ + 1, !.training = TRUE]

\* The gradient reduction of the distributed wrapper completes only when
\* every process of the group takes part in it.
AllReduceReady(r) ==
  \A o \in ranks \ {r} : w[o].pc = "loop" /\ w[o].nbatches >= w[r].nbatches

\* ---- specification ----

Init ==
  /\ args \in [gradient_accumulation_steps : 1..MaxK,
               num_steps : 1..MaxT,
               eval_every : 1..MaxE,
               input_dir : InputCheckpoints]
  /\ train_len \in 1..MaxL
  /\ hard_file \in {NoFile} \cup (1..MaxWeights)
  /\ ranks \in {{-1}, {0, 1}}
  /\ w = [r \in ranks |-> InitWorker]
  /\ files = {}
  /\ call = NoCall
  /\ sched = NoSchedule
  /\ meter = NewMeter

\* train() up to the initial mAp call
Startup(r) ==
  /\ w[r].pc = "start"
  /\ w' = [w EXCEPT ![r] =
             [LoadCheckpoint([@ EXCEPT !.writer = IsMainProcess(r),
                                       !.optimizer = FreshOptimizer,
                                       !.scheduler = 0,
                                       !.global_step = 0,
                                       !.best_acc = 0],
                             args.input_dir)
              EXCEPT !.grads = 0, !.losses_count = 0, !.pc = "eval0"]]
  /\ UNCHANGED <<args, train_len, hard_file, ranks, files, units>>

\* mAp(args, model, writer, test_loader, global_step = -1), then the loop is entered
InitialEval(r) ==
  /\ w[r].pc = "eval0"
  /\ w' = [w EXCEPT ![r] =
             IF ~w[r].writer
             THEN [@ EXCEPT !.pc = "error"]       \* 'writer' is unbound
             ELSE LET m == mAp(@, -1, hard_file)
                  IN IF m.pc = "error" THEN m
                     ELSE [m EXCEPT !.training = TRUE, !.step = 0, !.pc = "loop"]]
  /\ UNCHANGED <<args, train_len, hard_file, ranks, files, units>>

\* one micro-batch
MicroBatch(r) ==
  /\ w[r].pc = "loop"
  /\ (WindowComplete(w[r].step, args.gradient_accumulation_steps) /\ r # -1)
        => AllReduceReady(r)
  /\ \E accuracy \in Accuracies :
       LET t == TrainStep(w[r], files, accuracy, args, train_len, r, hard_file)
       IN /\ w' = [w EXCEPT ![r] = t.s]
          /\ files' = t.files
  /\ UNCHANGED <<args, train_len, hard_file, ranks, units>>

\* the for loop has ended
EpochEnd(r) ==
  /\ w[r].pc = "epoch_end"
  /\ w' = [w EXCEPT ![r] = AfterEpoch(@, args)]
  /\ UNCHANGED <<args, train_len, hard_file, ranks, files, units>>

Next ==
  \/ \E r \in ranks : Startup(r)
  \/ \E r \in ranks : InitialEval(r)
  \/ \E r \in ranks : MicroBatch(r)
  \/ \E r \in ranks : EpochEnd(r)

Spec == Init /\ [][Next]_vars

\* ---- save_model_complete called directly, and a run resumed from its file ----

\* torch.load of a file written by save_model_complete
AsCheckpoint(f) ==
  [kind |-> "complete", step |-> f.step, model_state_dict |-> f.model_state_dict,
   optimizer_state_dict |-> f.optimizer_state_dict, best_accuracy |-> f.best_accuracy]

SaveInit ==
  /\ args = [gradient_accumulation_steps |-> 1, num_steps |-> 1, eval_every |-> 1,
             input_dir |-> NoCheckpoint]
  /\ train_len = 1
  /\ hard_file = NoFile
  /\ ranks = {-1}
  /\ w = [r \in ranks |-> InitWorker]
  /\ files = {}
  /\ call = NoCall
  /\ sched = NoSchedule
  /\ meter = NewMeter

\* save_model_complete(args, model, optimizer, accuracy, step)
SaveCall ==
  /\ Cardinality(files) < MaxFiles
  /\ \E accuracy \in Accuracies \cup {None}, step \in {0, MaxCkptStep},
        wid \in 1..MaxWeights :
       LET model == ModelState(wid)
           optimizer == [origin |-> "fresh", steps |-> step]
       IN /\ files' = save_model_complete(files, model, optimizer, accuracy, step)
          /\ call' = [made |-> TRUE, accuracy |-> accuracy, step |-> step,
                      model |-> model, optimizer |-> optimizer, before |-> files]
  /\ UNCHANGED <<args, train_len, hard_file, ranks, w, sched, meter>>

\* a new run is given a written file as args.input_dir
SelectCheckpoint ==
  /\ \E f \in files : args' = [args EXCEPT !.input_dir = AsCheckpoint(f)]
  /\ w' = [r \in ranks |-> InitWorker]
  /\ UNCHANGED <<train_len, hard_file, ranks, files, units>>

SaveNext ==
  \/ SaveCall
  \/ SelectCheckpoint
  \/ \E r \in ranks : Startup(r)

SaveSpec == SaveInit /\ [][SaveNext]_vars

\* ---- learning-rate schedule (utils/scheduler.py, described in section 4.1) ----

MaxWarmup == 3     \* warmup_steps in 0..MaxWarmup
MaxSchedStep == 6  \* scheduler.step() calls explored
Milli == 1000      \* cosine values are kept in thousandths

\* a rational is <<numerator, denominator>> with a positive denominator
RatLe(a, b) == a[1] * b[2] <= b[1] * a[2]
RatEq(a, b) == a[1] * b[2] = b[1] * a[2]
AtLeastOne(x) == IF x > 1 THEN x ELSE 1

\* round(0.5 * (1 + cos(pi * n / d)) * Milli) at [d][n + 1], d in 1..6, n in 0..d
CosineTable ==
  <<<<1000, 0>>,
    <<1000, 500, 0>>,
    <<1000, 750, 250, 0>>,
    <<1000, 854, 500, 146, 0>>,
    <<1000, 905, 655, 345, 95, 0>>,
    <<1000, 933, 750, 500, 250, 67, 0>>>>

\* the warmup ramp with the step counted from 1
WarmupFactor_FromOne(step, warmup_steps) == <<step + 1, AtLeastOne(warmup_steps)>>

\* step / max(warmup_steps, 1)
WarmupFactor(step, warmup_steps) == <<step, AtLeastOne(warmup_steps)>>

\* progress without the upper clamp
Progress_Unclamped(step, warmup_steps, t_total) ==
  <<step - warmup_steps, AtLeastOne(t_total - warmup_steps)>>

\* (step - warmup_steps) / max(total_steps - warmup_steps, 1), clamped to [0,1]
Progress(step, warmup_steps, t_total) ==
  LET d == AtLeastOne(t_total - warmup_steps)
      n == step - warmup_steps
  IN IF n < 0 THEN <<0, d>> ELSE IF n > d THEN <<d, d>> ELSE <<n, d>>

\* the multiplier rate(step)
Rate(decay, step, warmup_steps, t_total) ==
  IF step < warmup_steps THEN WarmupFactor(step, warmup_steps)
  ELSE LET p == Progress(step, warmup_steps, t_total)
       IN IF decay = "linear" THEN <<p[2] - p[1], p[2]>>
          ELSE <<CosineTable[p[2]][p[1] + 1], Milli>>

SchedInit ==
  /\ args = [gradient_accumulation_steps |-> 1, num_steps |-> 1, eval_every |-> 1,
             input_dir |-> NoCheckpoint]
  /\ train_len = 1
  /\ hard_file = NoFile
  /\ ranks = {-1}
  /\ w = [r \in ranks |-> InitWorker]
  /\ files = {}
  /\ call = NoCall
  /\ meter = NewMeter
  /\ sched = NoSchedule

\* WarmupLinearSchedule / WarmupCosineSchedule (optimizer, warmup_steps, t_total);
\* the constructor evaluates the multiplier of step 0
SchedCreate ==
  /\ sched.decay = "none"
  /\ \E decay \in {"linear", "cosine"}, warmup_steps \in 0..MaxWarmup, t_total \in 1..MaxT :
       sched' = [warmup_steps |-> warmup_steps, t_total |-> t_total, decay |-> decay,
                 last_epoch |-> 0,
                 factor |-> Rate(decay, 0, warmup_steps, t_total)]
  /\ UNCHANGED <<args, train_len, hard_file, ranks, w, files, call, meter>>

\* scheduler.step()
SchedStep ==
  /\ sched.decay # "none"
  /\ sched.last_epoch < MaxSchedStep
  /\ sched' = [sched EXCEPT !.last_epoch = @ + 1,
                            !.factor = Rate(sched.decay, sched.last_epoch + 1,
                                            sched.warmup_steps, sched.t_total)]
  /\ UNCHANGED <<args, train_len, hard_file, ranks, w, files, call, meter>>

SchedNext == SchedCreate \/ SchedStep

SchedSpec == SchedInit /\ [][SchedNext]_vars

\* ---- AverageMeter ----

MaxLoss == 2       \* values passed to update() are 0..MaxLoss
MaxN == 2          \* weights passed to update() are 1..MaxN
MaxCalls == 3      \* update() calls explored between two resets

RECURSIVE GCD(_, _)
GCD(a, b) == IF b = 0 THEN a ELSE GCD(b, a % b)

\* a / b as a rational in lowest terms (true division)
Divide(a, b) == <<a \div GCD(a, b), b \div GCD(a, b)>>

reset(m) ==
  [val |-> 0, avg |-> <<0, 1>>, sum |-> 0, count |-> 0, calls |-> <<>>]

\* the count advanced by one per call instead of by n
update_CountsCalls(m, val, n) ==
  [val |-> val,
   sum |-> m.sum + val * n,
   count |-> m.count + 1,
   avg |-> Divide(m.sum + val * n, m.count + 1),
   calls |-> Append(m.calls, <<val, n>>)]

update(m, val, n) ==
  [val |-> val,
   sum |-> m.sum + val * n,
   count |-> m.count + n,
   avg |-> Divide(m.sum + val * n, m.count + n),
   calls |-> Append(m.calls, <<val, n>>)]

\* one single-process run of train(), then calls on a meter of its own
MeterInit ==
  /\ args \in [gradient_accumulation_steps : 1..MaxK,
               num_steps : {MaxT},
               eval_every : {MaxE},
               input_dir : {NoCheckpoint}]
  /\ train_len = MaxL
  /\ hard_file = 1
  /\ ranks = {-1}
  /\ w = [r \in ranks |-> InitWorker]
  /\ files = {}
  /\ call = NoCall
  /\ sched = NoSchedule
  /\ meter = NewMeter

ResetCall ==
  /\ \A r \in ranks : w[r].pc = "done"
  /\ meter' = reset(meter)
  /\ UNCHANGED <<args, train_len, hard_file, ranks, w, files, call, sched>>

UpdateCall ==
  /\ \A r \in ranks : w[r].pc = "done"
  /\ Len(meter.calls) < MaxCalls
  /\ \E val \in 0..MaxLoss, n \in 1..MaxN : meter' = update(meter, val, n)
  /\ UNCHANGED <<args, train_len, hard_file, ranks, w, files, call, sched>>

MeterNext ==
  \/ \E r \in ranks : Startup(r)
  \/ \E r \in ranks : InitialEval(r)
  \/ \E r \in ranks : MicroBatch(r)
  \/ \E r \in ranks : EpochEnd(r)
  \/ ResetCall
  \/ UpdateCall

MeterSpec == MeterInit /\ [][MeterNext]_vars

\* ---- properties ----

K == args.gradient_accumulation_steps
Designated == {-1, 0}
Started(r) == w[r].pc \notin {"start"}
MaxOf(S) == CHOOSE x \in S : \A y \in S : y <= x
Prefix(a, n) == {a[j] : j \in 1..n}

\* C1: over any number of epochs, after N micro-batches exactly N div K
\* optimizer updates have occurred and every update applied the gradients of
\* exactly K micro-batches.
C1_AccumulationAcrossEpochs ==
  \A r \in ranks :
    /\ w[r].updates = w[r].nbatches \div K
    /\ w[r].updates > 0 => w[r].applied = K

\* C2: within the first pass over the loader, after n micro-batches exactly
\* n div K optimizer steps have occurred, global_step = n div K, n mod K
\* micro-batches are pending, and each update applied K micro-batches.
C2_SinglePassWindows ==
  \A r \in ranks :
    w[r].epoch = 0 =>
      /\ w[r].updates = w[r].nbatches \div K
      /\ w[r].global_step = w[r].nbatches \div K
      /\ w[r].grads = w[r].nbatches % K
      /\ w[r].updates > 0 => w[r].applied = K

C2_Witness ==
  \E r \in ranks :
    /\ w[r].epoch = 0 /\ K >= 2
    /\ w[r].updates >= 2 /\ w[r].grads >= 1

\* C3: the loop is left only with global_step = total_steps, and no
\* micro-batch is processed once global_step = total_steps.
C3_ExitExactlyAtTotalSteps ==
  /\ [](\A r \in ranks : w[r].pc = "done" => w[r].global_step = args.num_steps)
  /\ [][\A r \in ranks :
          w[r].global_step = args.num_steps => w'[r].nbatches = w[r].nbatches]_vars

\* the best accuracy train() starts from: 0, or the best_accuracy stored in
\* a complete-state checkpoint
StartBest ==
  IF args.input_dir.kind = "complete" THEN args.input_dir.best_accuracy ELSE 0

C5_ResumeRestoresStepAndOptimizer ==
  \A r \in ranks :
    w[r].pc = "eval0" =>
      /\ args.input_dir.kind = "complete" =>
           /\ w[r].global_step = args.input_dir.step
           /\ w[r].optimizer = args.input_dir.optimizer_state_dict
      /\ args.input_dir.kind = "weights" =>
           /\ w[r].global_step = 0
           /\ w[r].optimizer = FreshOptimizer

\* C6: when a checkpoint is supplied, the first training micro-batch is
\* processed with the model parameters stored in that checkpoint.
C6_FirstBatchUsesCheckpointWeights ==
  \A r \in ranks :
    (args.input_dir.kind # "none" /\ w[r].pc = "loop" /\ w[r].nbatches = 0) =>
      w[r].model = args.input_dir.model_state_dict

C8_EvaluationAtEnd ==
  \A r \in ranks :
    (r \in Designated /\ w[r].pc = "done" /\ w[r].global_step = args.num_steps) =>
      w[r].last_valid_step = args.num_steps

C10_GlobalStepCountsUpdates ==
  /\ [](\A r \in ranks :
          /\ w[r].global_step >= 0
          /\ w[r].updates = w[r].global_step - 0)
  /\ [][\A r \in ranks :
          \/ /\ w'[r].global_step = w[r].global_step
             /\ w'[r].updates = w[r].updates
          \/ /\ w'[r].global_step = w[r].global_step + 1
             /\ w'[r].updates = w[r].updates + 1
             /\ w[r].pc = "loop"
             /\ w'[r].nbatches = w[r].nbatches + 1
             /\ (w[r].step + 1) % K = 0]_vars

C10_Witness ==
  \E r \in ranks :
    /\ K >= 2
    /\ w[r].global_step >= 1
    /\ w[r].grads >= 1
    /\ w[r].epoch >= 1

\* C11: a run resumed from a file written by save_model_complete (either
\* path) starts with the step counter, model state and optimizer state that
\* were saved.
C11_CheckpointRoundTrip ==
  \A f \in files : \A r \in ranks :
    (w[r].pc = "eval0" /\ args.input_dir = AsCheckpoint(f)) =>
      /\ w[r].global_step = f.step
      /\ w[r].model = f.model_state_dict
      /\ w[r].optimizer = f.optimizer_state_dict

\* C18: a call with an accuracy in [0,1] (0.0 included) writes to the best
\* directory under a name made of step and accuracy, a call without accuracy
\* writes to the every-checkpoint directory under a name made of the step;
\* the written record holds the arguments, and every file with another name
\* is kept as it was.
C18_SaveSelectsDirectory ==
  call.made =>
    LET dir == IF call.accuracy \in Accuracies THEN "best_acc" ELSE "every_checkpoint"
        name == IF call.accuracy \in Accuracies
                THEN <<call.step, call.accuracy>> ELSE <<call.step>>
    IN /\ \E f \in files :
            /\ f.dir = dir /\ f.name = name
            /\ f.step = call.step
            /\ f.model_state_dict = call.model
            /\ f.optimizer_state_dict = call.optimizer
            /\ f.best_accuracy = call.accuracy
       /\ \A g \in call.before :
            ~(g.dir = dir /\ g.name = name) => g \in files

\* ---- schedule properties ----

Zero == <<0, 1>>
One == <<1, 1>>
ScheduleKinds == {"linear", "cosine"}

\* C12: the optimizer update that takes global_step from n to n+1 uses the
\* multiplier rate(n) (the schedule is advanced only after the update), for
\* every warmup length and decay kind.
C12_UpdateUsesRateOfOldStep ==
  \A r \in ranks :
    w[r].updates > 0 =>
      \A decay \in ScheduleKinds, warmup_steps \in 0..MaxWarmup :
        RatEq(Rate(decay, w[r].lr_epoch, warmup_steps, args.num_steps),
              Rate(decay, w[r].global_step - 1, warmup_steps, args.num_steps))

\* C13 (as stated): for every W >= 0, rate(0) = 0, rate(W) = 1, and rate(W)
\* exceeds the ramp value (W-1)/max(W,1) by at most 1/max(W,1).
C13_WarmupEndpoints ==
  LET W == sched.warmup_steps
  IN sched.decay \in ScheduleKinds =>
       /\ sched.last_epoch = 0 => RatEq(sched.factor, Zero)
       /\ sched.last_epoch = W =>
            /\ RatEq(sched.factor, One)
            /\ RatLe(sched.factor, <<(W - 1) + 1, AtLeastOne(W)>>)

\* C13 (amended): for W >= 1, rate(0) = 0, rate(W-1) = (W-1)/W, rate(W) = 1
\* and the step from W-1 to W raises the multiplier by exactly 1/W; for
\* W = 0 there is no warmup and rate(0) = rate(W) = 1.
C13_WarmupEndpointsPositiveW ==
  /\ []((sched.decay \in ScheduleKinds /\ sched.warmup_steps >= 1) =>
          /\ sched.last_epoch = 0 => RatEq(sched.factor, Zero)
          /\ sched.last_epoch = sched.warmup_steps - 1 =>
               RatEq(sched.factor, <<sched.warmup_steps - 1, sched.warmup_steps>>)
          /\ sched.last_epoch = sched.warmup_steps => RatEq(sched.factor, One))
  /\ []((sched.decay \in ScheduleKinds /\ sched.warmup_steps = 0) =>
          (sched.last_epoch = 0 => RatEq(sched.factor, One)))
  /\ [][(sched.decay \in ScheduleKinds /\ sched.warmup_steps >= 1
           /\ sched.last_epoch = sched.warmup_steps - 1) =>
          RatEq(<<sched'.factor[1] * sched.factor[2] - sched.factor[1] * sched'.factor[2],
                  sched'.factor[2] * sched.factor[2]>>,
                <<1, sched.warmup_steps>>)]_vars

C13_Witness ==
  /\ sched.decay = "cosine"
  /\ sched.warmup_steps >= 2
  /\ sched.last_epoch = sched.warmup_steps
  /\ sched.t_total <= sched.warmup_steps

\* C14: for every W >= 0 and total_steps > 0 (total_steps <= W included) and
\* every step >= 0 (step > total_steps included) the multiplier is in [0,1],
\* it does not increase from step to step + 1 when step >= W, and it is 0
\* for every step >= max(total_steps, W + 1); linear decay exactly, cosine
\* decay in thousandths.
C14_RangeAndDecay ==
  /\ [](sched.decay \in ScheduleKinds =>
          /\ RatLe(Zero, sched.factor) /\ RatLe(sched.factor, One)
          /\ (sched.last_epoch >= sched.t_total
                /\ sched.last_epoch >= sched.warmup_steps + 1) =>
               RatEq(sched.factor, Zero))
  /\ [][(sched.decay \in ScheduleKinds /\ sched.last_epoch >= sched.warmup_steps) =>
          RatLe(sched'.factor, sched.factor)]_vars

C14_Witness ==
  /\ sched.decay = "cosine"
  /\ sched.last_epoch > sched.t_total
  /\ sched.t_total > sched.warmup_steps + 1
  /\ sched.warmup_steps >= 1

\* ---- evaluation, termination, workers ----

\* C15: the startup mAp call leaves model parameters, optimizer state,
\* accumulated gradients, global_step and best accuracy unchanged; during
\* the loop the model and the optimizer change only by optimizer updates;
\* every training micro-batch is processed in training mode.
C15_EvaluationIsReadOnly ==
  /\ [][\A r \in ranks :
          w[r].pc = "eval0" =>
            /\ w'[r].model = w[r].model
            /\ w'[r].optimizer = w[r].optimizer
            /\ w'[r].grads = w[r].grads
            /\ w'[r].global_step = w[r].global_step
            /\ w'[r].best_acc = w[r].best_acc]_vars
  /\ [](\A r \in ranks :
          /\ w[r].model.updates = w[r].updates
          /\ w[r].optimizer.steps = w[r].updates
          /\ w[r].fwd_training)

\* C16: when train() has left the loop, exactly total_steps optimizer
\* updates have been performed.
C16_FullBudgetAtExit ==
  \A r \in ranks : w[r].pc = "done" => w[r].updates = args.num_steps

\* a process at the gradient reduction that closes a window, while another
\* process of the group has not arrived
Waiting(r) ==
  /\ w[r].pc = "loop"
  /\ WindowComplete(w[r].step, K)
  /\ ~AllReduceReady(r)

\* C17: in a run of several processes, processes in the loop differ by less
\* than one optimizer step, no process waits at the reduction for a process
\* that has aborted or finished, and processes that have left the loop have
\* performed the same number of optimizer steps.
C17_WorkersInLockstep ==
  Cardinality(ranks) > 1 =>
    \A r \in ranks : \A o \in ranks \ {r} :
      /\ (w[r].pc = "loop" /\ w[o].pc = "loop") =>
           w[r].global_step - w[o].global_step \in {-1, 0, 1}
      /\ ~(Waiting(r) /\ w[o].pc \in {"error", "done"})
      /\ (w[r].pc = "done" /\ w[o].pc = "done") => w[r].updates = w[o].updates

\* ---- meter properties ----

RECURSIVE WeightedSum(_)
WeightedSum(c) ==
  IF c = <<>> THEN 0 ELSE WeightedSum(SubSeq(c, 1, Len(c) - 1)) + c[Len(c)][1] * c[Len(c)][2]

RECURSIVE TotalWeight(_)
TotalWeight(c) ==
  IF c = <<>> THEN 0 ELSE TotalWeight(SubSeq(c, 1, Len(c) - 1)) + c[Len(c)][2]

\* C19: after any calls of reset() and update(value, n), n >= 1, sum is the
\* weighted sum of the values since the last reset, count the sum of their
\* weights, avg * count = sum, val the last value, and all four are 0 after
\* a reset; in train() the loss meter is updated once in each micro-batch
\* that completes a window, in no other micro-batch, and is reset when the
\* for loop ends.
C19_MeterConsistent ==
  /\ [](/\ meter.sum = WeightedSum(meter.calls)
        /\ meter.count = TotalWeight(meter.calls)
        /\ meter.avg[1] * meter.count = meter.sum * meter.avg[2]
        /\ meter.calls # <<>> => meter.val = meter.calls[Len(meter.calls)][1]
        /\ meter.calls = <<>> =>
             /\ meter.val = 0 /\ meter.sum = 0 /\ meter.count = 0
             /\ meter.avg[1] = 0)
  /\ [][\A r \in ranks :
          /\ w[r].pc = "loop" =>
               w'[r].losses_count =
                 w[r].losses_count + (IF w'[r].updates = w[r].updates + 1 THEN 1 ELSE 0)
          /\ w[r].pc = "epoch_end" => w'[r].losses_count = 0]_vars

C19_Witness ==
  /\ Len(meter.calls) >= 2
  /\ meter.calls[1][2] # meter.calls[2][2]
  /\ meter.avg[2] > 1
  /\ \E r \in ranks : w[r].epoch >= 1 /\ w[r].updates >= 2

====
